---- MODULE Spec2Model ----
(***************************************************************************)
(* Gene comparison service: the /compare handler of main.py, the server    *)
(* lifespan that creates the database engine, and the ingestion script     *)
(* data_pipeline.py that builds the tables the handler reads.              *)
(*                                                                         *)
(* Text is a sequence of one-character (or one-token) strings, so that     *)
(* strip, upper and split act on it as str.strip, str.upper and str.split  *)
(* do.  A table is the sequence of its rows, in table order.               *)
(***************************************************************************)
EXTENDS Integers, Sequences, FiniteSets, TLC

VARIABLES
    engine,         \* main.py global `engine`: "None" or "Engine"
    phase,          \* position of lifespan(): "import", "serving", "shutdown"
    connected,      \* lifespan() reached "Database connection successful"
    envOK,          \* SUPABASE_URL and DB_PASSWORD are both set
    dbUp,           \* the database accepts connections
    genes,          \* table genes(ensembl_gene_id, gene_symbol)
    ensembl_to_go,  \* table ensembl_to_go(ensembl_gene_id, go_id)
    go_terms,       \* table go_terms(GO_ID, GO_Term)
    biogrid_ppi,    \* table biogrid_ppi(Official Symbol Interactor A, B)
    req,            \* per request: position in compare_gene_lists and its locals
    raw,            \* raw_data/ files read by data_pipeline.py
    ppc             \* position of the data_pipeline.py script

vars == <<engine, phase, connected, envOK, dbUp, genes, ensembl_to_go, go_terms,
          biogrid_ppi, req, raw, ppc>>

tables == <<genes, ensembl_to_go, go_terms, biogrid_ppi>>
server == <<engine, phase, connected, envOK>>
pipeline == <<raw, ppc>>

-----------------------------------------------------------------------------
(* Bounds *)

MaxList == 2        \* longest submitted gene list
MaxRows == 1        \* longest table put in place of a table of the base catalog
MaxLines == 4       \* longest go-basic.obo file, in lines
MaxMart == 2        \* longest mart_export file, in rows
NumReq == 2         \* requests in flight

Requests == 1..NumReq

-----------------------------------------------------------------------------
(* Text *)

Range(s) == {s[i] : i \in 1..Len(s)}

SeqsUpTo(S, n) == UNION {[1..k -> S] : k \in 0..n}

\* str.upper over the letters the model uses
UpperChar(c) == CASE c = "g" -> "G" [] c = "s" -> "S" [] OTHER -> c

Upper(s) == [i \in 1..Len(s) |-> UpperChar(s[i])]

IsSpace(c) == c = " "

RECURSIVE LStrip(_)
LStrip(s) == IF s # <<>> /\ IsSpace(Head(s)) THEN LStrip(Tail(s)) ELSE s

RECURSIVE RStrip(_)
RStrip(s) == IF s # <<>> /\ IsSpace(s[Len(s)]) THEN RStrip(SubSeq(s, 1, Len(s) - 1)) ELSE s

\* str.strip
Strip(s) == RStrip(LStrip(s))

-----------------------------------------------------------------------------
(* compare_gene_lists: the computations of one request *)

\* {s.strip().upper() for s in xs if s.strip()}
CleanIds(xs) == {Upper(Strip(xs[i])) : i \in {j \in 1..Len(xs) : Strip(xs[j]) # <<>>}}

\* set(gene_info_df['ensembl_gene_id'].str.upper().dropna())
DbEnsemblIds(gene_info_df) == {Upper(gene_info_df[i].ensembl_gene_id) : i \in 1..Len(gene_info_df)}

\* len(ids.intersection(db_ensembl_ids))
MappedCount(ids, gene_info_df) == Cardinality(ids \cap DbEnsemblIds(gene_info_df))

\* set(df[df['ensembl_gene_id'].isin(ids)]['go_id'])
GoSet(ensembl_to_go_df, ids) ==
    {ensembl_to_go_df[i].go_id : i \in {j \in 1..Len(ensembl_to_go_df) : ensembl_to_go_df[j].ensembl_gene_id \in ids}}

\* go_set_a - go_set_b
UniqueIdsNoDifference(x, y) == x

UniqueIds(x, y) == x \ y

\* go_set_a & go_set_b
SharedIds(x, y) == x \cap y

\* list(a_set): a list of the set's elements in an order the set's hashing decides
Orderings(S) == {s \in [1..Cardinality(S) -> S] : Range(s) = S}

\* the rows of the ids of id_list, one id after the other
RECURSIVE get_terms_in_id_list_order(_, _)
get_terms_in_id_list_order(go_terms_map_df, id_list) ==
    IF id_list = <<>> THEN <<>>
    ELSE LET hit == SelectSeq(go_terms_map_df, LAMBDA row : row.GO_ID = Head(id_list))
         IN  [i \in 1..Len(hit) |-> [id |-> hit[i].GO_ID, term |-> hit[i].GO_Term]]
             \o get_terms_in_id_list_order(go_terms_map_df, Tail(id_list))

\* the rows of go_terms_map_df whose GO_ID is in id_list, in table order, renamed
get_terms_from_ids(go_terms_map_df, id_list) ==
    IF id_list = <<>> THEN <<>>
    ELSE LET hit == SelectSeq(go_terms_map_df, LAMBDA row : row.GO_ID \in Range(id_list))
         IN  [i \in 1..Len(hit) |-> [id |-> hit[i].GO_ID, term |-> hit[i].GO_Term]]

\* set(df[df['ensembl_gene_id'].isin(ids)]['gene_symbol'].str.upper())
SymbolsOf(gene_info_df, ids) ==
    {Upper(gene_info_df[i].gene_symbol) : i \in {j \in 1..Len(gene_info_df) : gene_info_df[j].ensembl_gene_id \in ids}}

\* both interactor columns upper-cased, on the request's own dataframe
UpperPPI(df) == [i \in 1..Len(df) |-> [A |-> Upper(df[i].A), B |-> Upper(df[i].B)]]

InternalFirstEndpointOnly(df, symbols) == SelectSeq(df, LAMBDA e : e.A \in symbols)

Internal(df, symbols) == SelectSeq(df, LAMBDA e : e.A \in symbols /\ e.B \in symbols)

CrossTalkOneDirection(df, symbols_a, symbols_b) ==
    SelectSeq(df, LAMBDA e : e.A \in symbols_a /\ e.B \in symbols_b)

CrossTalk(df, symbols_a, symbols_b) ==
    SelectSeq(df, LAMBDA e : \/ (e.A \in symbols_a /\ e.B \in symbols_b)
                             \/ (e.A \in symbols_b /\ e.B \in symbols_a))

NoSummary == [up_regulated_submitted_count |-> 0, down_regulated_submitted_count |-> 0,
              up_regulated_mapped_count |-> 0, down_regulated_mapped_count |-> 0]
NoGo == [unique_to_up_regulated |-> <<>>, unique_to_down_regulated |-> <<>>, shared |-> <<>>]
NoPPI == [internal_up_regulated |-> <<>>, internal_down_regulated |-> <<>>, cross_talk |-> <<>>]

\* status 0: no response yet
NoResponse == [status |-> 0, summary |-> NoSummary, go_comparison |-> NoGo, ppi_analysis |-> NoPPI]

ErrorResponse(code) == [NoResponse EXCEPT !.status = code]

\* the dictionary returned at the end of compare_gene_lists
FinalResponse(q, df) ==
    [status |-> 200,
     summary |-> [up_regulated_submitted_count |-> Cardinality(q.ensembl_ids_a),
                  down_regulated_submitted_count |-> Cardinality(q.ensembl_ids_b),
                  up_regulated_mapped_count |-> q.mapped_a_count,
                  down_regulated_mapped_count |-> q.mapped_b_count],
     go_comparison |-> [unique_to_up_regulated |-> get_terms_from_ids(q.go_terms_map_df, q.unique_go_a_ids),
                        unique_to_down_regulated |-> get_terms_from_ids(q.go_terms_map_df, q.unique_go_b_ids),
                        shared |-> get_terms_from_ids(q.go_terms_map_df, q.shared_go_ids)],
     ppi_analysis |-> [internal_up_regulated |-> Internal(df, q.symbols_a),
                       internal_down_regulated |-> Internal(df, q.symbols_b),
                       cross_talk |-> CrossTalk(df, q.symbols_a, q.symbols_b)]]

IdleRequest ==
    [pc |-> "idle", up |-> <<>>, down |-> <<>>, reads |-> {},
     ensembl_ids_a |-> {}, ensembl_ids_b |-> {}, gene_info_df |-> <<>>,
     mapped_a_count |-> 0, mapped_b_count |-> 0,
     go_set_a |-> {}, go_set_b |-> {},
     unique_go_a_ids |-> <<>>, unique_go_b_ids |-> <<>>, shared_go_ids |-> <<>>,
     go_terms_map_df |-> <<>>, symbols_a |-> {}, symbols_b |-> {},
     resp |-> NoResponse]

\* the request after its return: the lists it came with, the tables it read, its response
Returned(q, response) ==
    [IdleRequest EXCEPT !.pc = "done", !.up = q.up, !.down = q.down,
                        !.reads = q.reads \cup {"biogrid_ppi"}, !.resp = response]

NewRequest(up, down) == [IdleRequest EXCEPT !.pc = "start", !.up = up, !.down = down]

-----------------------------------------------------------------------------
(* compare_gene_lists: the steps of one request, split at each table read *)

\* engine is None: HTTPException 503
Unavailable(r) ==
    /\ req[r].pc = "start"
    /\ engine = "None"
    /\ req' = [req EXCEPT ![r].pc = "done", ![r].resp = ErrorResponse(503)]
    /\ UNCHANGED <<server, dbUp, tables, pipeline>>

\* engine.connect() raises: the request fails with a server error
ConnectFails(r) ==
    /\ req[r].pc = "start"
    /\ engine # "None"
    /\ ~dbUp
    /\ req' = [req EXCEPT ![r].pc = "done", ![r].resp = ErrorResponse(500)]
    /\ UNCHANGED <<server, dbUp, tables, pipeline>>

\* steps 1 and 2: clean the lists, read genes, count the mapped ids
ReadGenes(r) ==
    /\ req[r].pc = "start"
    /\ engine # "None"
    /\ dbUp
    /\ LET a == CleanIds(req[r].up)
           b == CleanIds(req[r].down)
       IN  req' = [req EXCEPT ![r].pc = "go",
                              ![r].reads = @ \cup {"genes"},
                              ![r].ensembl_ids_a = a,
                              ![r].ensembl_ids_b = b,
                              ![r].gene_info_df = genes,
                              ![r].mapped_a_count = MappedCount(a, genes),
                              ![r].mapped_b_count = MappedCount(b, genes)]
    /\ UNCHANGED <<server, dbUp, tables, pipeline>>

\* step 3: read ensembl_to_go, the two term sets and their three-way split
ReadGo(r) ==
    /\ req[r].pc = "go"
    /\ LET go_set_a == GoSet(ensembl_to_go, req[r].ensembl_ids_a)
           go_set_b == GoSet(ensembl_to_go, req[r].ensembl_ids_b)
       IN  \E ua \in Orderings(UniqueIds(go_set_a, go_set_b)),
              ub \in Orderings(UniqueIds(go_set_b, go_set_a)),
              sh \in Orderings(SharedIds(go_set_a, go_set_b)) :
               req' = [req EXCEPT ![r].pc = "terms",
                                  ![r].reads = @ \cup {"ensembl_to_go"},
                                  ![r].go_set_a = go_set_a,
                                  ![r].go_set_b = go_set_b,
                                  ![r].unique_go_a_ids = ua,
                                  ![r].unique_go_b_ids = ub,
                                  ![r].shared_go_ids = sh]
    /\ UNCHANGED <<server, dbUp, tables, pipeline>>

\* read go_terms; step 4: the symbols of the two lists
ReadTerms(r) ==
    /\ req[r].pc = "terms"
    /\ req' = [req EXCEPT ![r].pc = "ppi",
                          ![r].reads = @ \cup {"go_terms"},
                          ![r].go_terms_map_df = go_terms,
                          ![r].symbols_a = SymbolsOf(req[r].gene_info_df, req[r].ensembl_ids_a),
                          ![r].symbols_b = SymbolsOf(req[r].gene_info_df, req[r].ensembl_ids_b)]
    /\ UNCHANGED <<server, dbUp, tables, pipeline>>

ReadPPIUpperCasesSharedTable(r) ==
    /\ req[r].pc = "ppi"
    /\ LET df == UpperPPI(biogrid_ppi)
       IN  /\ biogrid_ppi' = df
           /\ req' = [req EXCEPT ![r] = Returned(req[r], FinalResponse(req[r], df))]
    /\ UNCHANGED <<server, dbUp, genes, ensembl_to_go, go_terms, pipeline>>

\* read biogrid_ppi, upper-case the request's copy, split the edges; step 5: return
\* the response, which ends the life of the locals
ReadPPI(r) ==
    /\ req[r].pc = "ppi"
    /\ LET df == UpperPPI(biogrid_ppi)
       IN  req' = [req EXCEPT ![r] = Returned(req[r], FinalResponse(req[r], df))]
    /\ UNCHANGED <<server, dbUp, tables, pipeline>>

-----------------------------------------------------------------------------
(* Catalog contents and submitted lists *)

G1 == <<"G", "1">>
PaddedLowerG1 == <<" ", "g", "1">>
G2 == <<"G", "2">>
g2 == <<"g", "2">>
S1 == <<"S", "1">>
S2 == <<"S", "2">>
s2 == <<"s", "2">>
T1 == <<"GO", ":", "1">>
T2 == <<"GO", ":", "2">>
T3 == <<"GO", ":", "3">>
N1 == <<"n", "1">>
N2 == <<"n", "2">>
Blank == <<" ">>

Gene(i, s) == [ensembl_gene_id |-> i, gene_symbol |-> s]
Anno(i, t) == [ensembl_gene_id |-> i, go_id |-> t]
Term(t, n) == [GO_ID |-> t, GO_Term |-> n]
Edge(a, b) == [A |-> a, B |-> b]

GeneRows == {Gene(G1, S1), Gene(G2, s2), Gene(g2, S2)}
AnnoRows == {Anno(G1, T1), Anno(G2, T1), Anno(g2, T2)}
TermRows == {Term(T1, N1), Term(T2, N2), Term(T1, N2)}
EdgeRows == {Edge(S1, S2), Edge(s2, S1), Edge(S1, S1)}

BaseGenes == <<Gene(G1, S1), Gene(G2, s2)>>
BaseAnno == <<Anno(G1, T1), Anno(G2, T2), Anno(G1, T3), Anno(G2, T3)>>
BaseTerms == <<Term(T2, N2), Term(T1, N1)>>
BaseEdges == <<Edge(S1, S2), Edge(s2, S1), Edge(S1, S1)>>

\* the base catalog with one table replaced by any table of at most MaxRows rows
Catalogs ==
    {<<t, BaseAnno, BaseTerms, BaseEdges>> : t \in SeqsUpTo(GeneRows, MaxRows)}
    \cup {<<BaseGenes, t, BaseTerms, BaseEdges>> : t \in SeqsUpTo(AnnoRows, MaxRows)}
    \cup {<<BaseGenes, BaseAnno, t, BaseEdges>> : t \in SeqsUpTo(TermRows, MaxRows)}
    \cup {<<BaseGenes, BaseAnno, BaseTerms, t>> : t \in SeqsUpTo(EdgeRows, MaxRows)}

CompareLists == SeqsUpTo({PaddedLowerG1, G2}, MaxList)

NoRaw == [obo |-> [exists |-> FALSE, lines |-> <<>>],
          mart |-> [exists |-> FALSE, rows |-> <<>>],
          biogrid |-> [exists |-> FALSE, rows |-> <<>>]]

-----------------------------------------------------------------------------
(* The comparison as a function: a served request (A, B), then (B, A) *)

\* requests are taken one at a time, in order
Turn(r) == \A q \in Requests : q < r => req[q].pc = "done"

InitCompare ==
    /\ engine = "Engine" /\ phase = "serving" /\ connected = TRUE /\ envOK = TRUE /\ dbUp = TRUE
    /\ \E c \in Catalogs :
        /\ genes = c[1] /\ ensembl_to_go = c[2] /\ go_terms = c[3] /\ biogrid_ppi = c[4]
    /\ \E up \in CompareLists, down \in CompareLists :
        req = [r \in Requests |-> IF r = 1 THEN NewRequest(up, down)
                                  ELSE IF r = 2 THEN NewRequest(down, up)
                                  ELSE IdleRequest]
    /\ raw = NoRaw /\ ppc = "done"

NextCompare ==
    \/ \E r \in Requests : Turn(r) /\ ReadGenes(r)
    \/ \E r \in Requests : Turn(r) /\ ReadGo(r)
    \/ \E r \in Requests : Turn(r) /\ ReadTerms(r)
    \/ \E r \in Requests : Turn(r) /\ ReadPPI(r)

SpecCompare == InitCompare /\ [][NextCompare]_vars

-----------------------------------------------------------------------------
(* lifespan: the engine is created, and tested, once at startup *)

LifespanKeepsUntestedEngine(env_ok, db_up) == IF env_ok THEN "Engine" ELSE "None"

\* the value of `engine` when lifespan() reaches its yield
LifespanEngine(env_ok, db_up) ==
    IF ~env_ok THEN "None"            \* ValueError before create_engine
    ELSE IF db_up THEN "Engine"       \* create_engine, connection tested
    ELSE "None"                       \* engine.connect() raised: engine = None

\* lifespan() up to its yield; it has no await, so it runs in one step
Startup ==
    /\ phase = "import"
    /\ phase' = "serving"
    /\ engine' = LifespanEngine(envOK, dbUp)
    /\ connected' = (envOK /\ dbUp)
    /\ UNCHANGED <<envOK, dbUp, tables, req, pipeline>>

\* lifespan() after its yield
Shutdown ==
    /\ phase = "serving"
    /\ phase' = "shutdown"
    /\ UNCHANGED <<engine, connected, envOK, dbUp, tables, req, pipeline>>

\* the database goes away or comes back
DbChange ==
    /\ dbUp' = ~dbUp
    /\ UNCHANGED <<server, tables, req, pipeline>>

ServerLists == {<<Blank>>, <<PaddedLowerG1, G2>>}

ServerAnno == <<Anno(G1, T1), Anno(G2, T2)>>

\* POST /compare arrives with two lists
Receive(r) ==
    /\ req[r].pc = "idle"
    /\ phase # "shutdown"
    /\ \E up \in ServerLists, down \in ServerLists : req' = [req EXCEPT ![r] = NewRequest(up, down)]
    /\ UNCHANGED <<server, dbUp, tables, pipeline>>

Init ==
    /\ engine = "None" /\ phase = "import" /\ connected = FALSE
    /\ envOK \in BOOLEAN /\ dbUp \in BOOLEAN
    /\ genes = BaseGenes /\ ensembl_to_go = ServerAnno /\ go_terms = BaseTerms /\ biogrid_ppi = BaseEdges
    /\ req = [r \in Requests |-> IdleRequest]
    /\ raw = NoRaw /\ ppc = "done"

Next ==
    \/ Startup
    \/ Shutdown
    \/ DbChange
    \/ \E r \in Requests : Receive(r)
    \/ \E r \in Requests : Unavailable(r)
    \/ \E r \in Requests : ConnectFails(r)
    \/ \E r \in Requests : ReadGenes(r)
    \/ \E r \in Requests : ReadGo(r)
    \/ \E r \in Requests : ReadTerms(r)
    \/ \E r \in Requests : ReadPPI(r)

Spec == Init /\ [][Next]_vars

-----------------------------------------------------------------------------
(* The comparison on lists that clean to the same sets *)

NormalizeLists == SeqsUpTo({Blank, PaddedLowerG1, G2}, MaxList)

Reverse(xs) == [i \in 1..Len(xs) |-> xs[Len(xs) + 1 - i]]

Padded(xs) == [i \in 1..Len(xs) |-> <<" ">> \o xs[i] \o <<" ", " ">>]

OtherCaseChar(c) == CASE c = "g" -> "G" [] c = "G" -> "g" [] OTHER -> c

OtherCase(xs) == [i \in 1..Len(xs) |-> [k \in 1..Len(xs[i]) |-> OtherCaseChar(xs[i][k])]]

VariantKinds == {"reversed", "twice", "padded", "other case"}

\* xs in another order, with every element twice, padded, or in the other letter case
Variant(kind, xs) ==
    CASE kind = "reversed" -> Reverse(xs)
      [] kind = "twice" -> xs \o xs
      [] kind = "padded" -> Padded(xs)
      [] kind = "other case" -> OtherCase(xs)

InitNormalize ==
    /\ engine = "Engine" /\ phase = "serving" /\ connected = TRUE /\ envOK = TRUE /\ dbUp = TRUE
    /\ genes = BaseGenes /\ ensembl_to_go = ServerAnno /\ go_terms = BaseTerms /\ biogrid_ppi = BaseEdges
    /\ \E up \in NormalizeLists, down \in NormalizeLists :
        \E ku \in VariantKinds, kd \in VariantKinds :
            req = [r \in Requests |-> IF r = 1 THEN NewRequest(up, down)
                                      ELSE IF r = 2 THEN NewRequest(Variant(ku, up), Variant(kd, down))
                                      ELSE IdleRequest]
    /\ raw = NoRaw /\ ppc = "done"

SpecNormalize == InitNormalize /\ [][NextCompare]_vars

-----------------------------------------------------------------------------
(* data_pipeline.py: the script that builds the tables.  Each table holds   *)
(* the rows of the file the script writes for it, in the file's order.     *)

NULL == <<>>    \* an empty field, which pandas reads as NaN

Put(term_data, key, value) ==
    [k \in DOMAIN term_data \cup {key} |-> IF k = key THEN value ELSE term_data[k]]

\* if term_data and 'id' in term_data: go_terms.append(...)
Flush(term_data, out) ==
    IF <<"id">> \in DOMAIN term_data
    THEN Append(out, [GO_ID |-> term_data[<<"id">>],
                      GO_Term |-> IF <<"name">> \in DOMAIN term_data THEN term_data[<<"name">>] ELSE <<>>])
    ELSE out

\* line.split(':', 1), each part stripped
FirstColon(line) == CHOOSE i \in 1..Len(line) : line[i] = ":" /\ \A j \in 1..(i - 1) : line[j] # ":"
KeyOf(line) == Strip(SubSeq(line, 1, FirstColon(line) - 1))
ValueOf(line) == Strip(SubSeq(line, FirstColon(line) + 1, Len(line)))

RECURSIVE ParseLines(_, _, _)
ParseLines(lines, term_data, out) ==
    IF lines = <<>> THEN Flush(term_data, out)
    ELSE LET line == Strip(Head(lines))
         IN  IF line = <<"[Term]">> THEN ParseLines(Tail(lines), <<>>, Flush(term_data, out))
             ELSE IF ":" \in Range(line) THEN ParseLines(Tail(lines), Put(term_data, KeyOf(line), ValueOf(line)), out)
             ELSE ParseLines(Tail(lines), term_data, out)

parse_obo(lines) == ParseLines(lines, <<>>, <<>>)

\* rows with a GO term accession, as (ensembl_gene_id, go_id)
EnsemblGoRows(rows) ==
    LET kept == SelectSeq(rows, LAMBDA row : row.go # NULL)
    IN  [i \in 1..Len(kept) |-> [ensembl_gene_id |-> kept[i].id, go_id |-> kept[i].go]]

\* DataFrame.drop_duplicates: the first of equal rows is kept
RECURSIVE DropDuplicates(_)
DropDuplicates(rows) ==
    IF rows = <<>> THEN <<>>
    ELSE LET init == DropDuplicates(SubSeq(rows, 1, Len(rows) - 1))
             last == rows[Len(rows)]
         IN  IF last \in Range(init) THEN init ELSE Append(init, last)

\* [['ensembl_gene_id', 'gene_symbol']].dropna().drop_duplicates()
GeneMapRows(rows) ==
    LET proj == [i \in 1..Len(rows) |-> [ensembl_gene_id |-> rows[i].id, gene_symbol |-> rows[i].name]]
    IN  DropDuplicates(SelectSeq(proj, LAMBDA row : row.ensembl_gene_id # NULL /\ row.gene_symbol # NULL))

\* rows whose Experimental System Type is physical
FilteredBiogrid(rows) ==
    LET kept == SelectSeq(rows, LAMBDA row : row.type = "physical")
    IN  [i \in 1..Len(kept) |-> [A |-> kept[i].A, B |-> kept[i].B]]

\* section 0: go-basic.obo -> go_terms
ProcessGo ==
    /\ ppc = "go"
    /\ ppc' = "ensembl_go"
    /\ go_terms' = IF raw.obo.exists THEN parse_obo(raw.obo.lines) ELSE go_terms
    /\ UNCHANGED <<server, dbUp, genes, ensembl_to_go, biogrid_ppi, req, raw>>

\* section 1: mart_export -> ensembl_to_go
ProcessEnsemblGo ==
    /\ ppc = "ensembl_go"
    /\ ppc' = "gene_info"
    /\ ensembl_to_go' = IF raw.mart.exists THEN EnsemblGoRows(raw.mart.rows) ELSE ensembl_to_go
    /\ UNCHANGED <<server, dbUp, genes, go_terms, biogrid_ppi, req, raw>>

\* section 2: mart_export -> gene_map, the genes table
ProcessGeneInfo ==
    /\ ppc = "gene_info"
    /\ ppc' = "biogrid"
    /\ genes' = IF raw.mart.exists THEN GeneMapRows(raw.mart.rows) ELSE genes
    /\ UNCHANGED <<server, dbUp, ensembl_to_go, go_terms, biogrid_ppi, req, raw>>

\* section 2: BioGRID -> filtered_biogrid, the biogrid_ppi table
ProcessBiogrid ==
    /\ ppc = "biogrid"
    /\ ppc' = "done"
    /\ biogrid_ppi' = IF raw.biogrid.exists THEN FilteredBiogrid(raw.biogrid.rows) ELSE biogrid_ppi
    /\ UNCHANGED <<server, dbUp, genes, ensembl_to_go, go_terms, req, raw>>

Mart(i, n, t) == [id |-> i, name |-> n, go |-> t]

OboLines == {<<"[Term]">>, <<"id", ":", " ", "GO", ":", "1">>, <<"name", ":", " ", "n", "1">>}
MartRows == {Mart(G1, S1, T1), Mart(G1, S1, NULL), Mart(G2, NULL, T1)}
RawBiogrid == <<[A |-> S1, B |-> S2, type |-> "physical"], [A |-> S1, B |-> S1, type |-> "genetic"]>>

InitPipeline ==
    /\ engine = "Engine" /\ phase = "serving" /\ connected = TRUE /\ envOK = TRUE /\ dbUp = TRUE
    /\ genes = <<>> /\ ensembl_to_go = <<>> /\ go_terms = <<>> /\ biogrid_ppi = <<>>
    /\ req = [r \in Requests |-> IdleRequest]
    /\ ppc = "go"
    /\ \E obo_exists \in BOOLEAN, mart_exists \in BOOLEAN :
       \E lines \in IF obo_exists THEN SeqsUpTo(OboLines, MaxLines) ELSE {<<>>},
          rows \in IF mart_exists THEN SeqsUpTo(MartRows, MaxMart) ELSE {<<>>} :
            raw = [obo |-> [exists |-> obo_exists, lines |-> lines],
                   mart |-> [exists |-> mart_exists, rows |-> rows],
                   biogrid |-> [exists |-> TRUE, rows |-> RawBiogrid]]

\* the script runs to its end, then one request is served from the tables it built
NextPipeline ==
    \/ ProcessGo
    \/ ProcessEnsemblGo
    \/ ProcessGeneInfo
    \/ ProcessBiogrid
    \/ ppc = "done" /\ Receive(1)
    \/ ReadGenes(1)
    \/ ReadGo(1)
    \/ ReadTerms(1)
    \/ ReadPPI(1)

SpecPipeline == InitPipeline /\ [][NextPipeline]_vars

-----------------------------------------------------------------------------
(* Properties of the comparison *)

Served(r) == req[r].pc = "done" /\ req[r].resp.status = 200

\* the request has computed its term sets (it is past step 3)
PastGo(r) == req[r].pc \in {"terms", "ppi"}

\* the request has computed its symbol sets too (it is past step 4)
PastSymbols(r) == req[r].pc = "ppi"

\* the term ids and the symbols of a submitted list
TermsOf(xs) == GoSet(ensembl_to_go, CleanIds(xs))
SymbolsFor(xs) == SymbolsOf(genes, CleanIds(xs))

NoRepeats(s) == Cardinality(Range(s)) = Len(s)

\* C1: the three term-id lists of a request are duplicate-free, unique-to-A and
\* unique-to-B are disjoint, shared is terms_a /\ terms_b, and each side's terms
\* are its unique terms together with the shared ones.
C1_SetAlgebra ==
    \A r \in Requests : PastGo(r) =>
        LET ua == Range(req[r].unique_go_a_ids)
            ub == Range(req[r].unique_go_b_ids)
            sh == Range(req[r].shared_go_ids)
        IN  /\ NoRepeats(req[r].unique_go_a_ids)
            /\ NoRepeats(req[r].unique_go_b_ids)
            /\ NoRepeats(req[r].shared_go_ids)
            /\ ua \cap ub = {}
            /\ ua \cap sh = {}
            /\ ub \cap sh = {}
            /\ sh = req[r].go_set_a \cap req[r].go_set_b
            /\ req[r].go_set_a = ua \cup sh
            /\ req[r].go_set_b = ub \cup sh

\* a request whose two sides share a term and each have a term of their own
C1_Witness ==
    \E r \in Requests :
        /\ PastGo(r)
        /\ req[r].unique_go_a_ids # <<>>
        /\ req[r].unique_go_b_ids # <<>>
        /\ req[r].shared_go_ids # <<>>

\* bucket lists exactly the rows of df that satisfy P, in the order of df
IsOrderedFilter(bucket, df, P(_)) ==
    LET idx == {i \in 1..Len(df) : P(df[i])}
    IN  /\ Len(bucket) = Cardinality(idx)
        /\ \A i \in idx : bucket[Cardinality({j \in idx : j <= i})] = df[i]

Flip(e) == [A |-> e.B, B |-> e.A]

\* the stored edge list with both symbols in upper case
StoredEdges == [i \in 1..Len(biogrid_ppi) |-> [A |-> Upper(biogrid_ppi[i].A), B |-> Upper(biogrid_ppi[i].B)]]

\* C2: each bucket of a served request is the edge list filtered by the bucket's
\* predicate, in edge-list order, and an edge and its reverse fall in the same buckets.
C2_Buckets ==
    \A r \in Requests : Served(r) =>
        LET a == SymbolsFor(req[r].up)
            b == SymbolsFor(req[r].down)
            out == req[r].resp.ppi_analysis
            InA(e) == e.A \in a /\ e.B \in a
            InB(e) == e.A \in b /\ e.B \in b
            Cross(e) == (e.A \in a /\ e.B \in b) \/ (e.A \in b /\ e.B \in a)
        IN  /\ IsOrderedFilter(out.internal_up_regulated, StoredEdges, InA)
            /\ IsOrderedFilter(out.internal_down_regulated, StoredEdges, InB)
            /\ IsOrderedFilter(out.cross_talk, StoredEdges, Cross)
            /\ \A i \in 1..Len(StoredEdges), j \in 1..Len(StoredEdges) :
                StoredEdges[j] = Flip(StoredEdges[i]) =>
                    /\ (StoredEdges[i] \in Range(out.internal_up_regulated)) = (StoredEdges[j] \in Range(out.internal_up_regulated))
                    /\ (StoredEdges[i] \in Range(out.internal_down_regulated)) = (StoredEdges[j] \in Range(out.internal_down_regulated))
                    /\ (StoredEdges[i] \in Range(out.cross_talk)) = (StoredEdges[j] \in Range(out.cross_talk))

\* a served request with an edge in two buckets, an edge left out of a bucket, and
\* an edge stored in both directions among the cross-talk
C2_Witness ==
    \E r \in Requests :
        /\ Served(r)
        /\ \E e \in Range(req[r].resp.ppi_analysis.cross_talk) :
            /\ e \in Range(req[r].resp.ppi_analysis.internal_up_regulated)
            /\ e.A # e.B
            /\ Flip(e) \in Range(req[r].resp.ppi_analysis.cross_talk)
        /\ Len(req[r].resp.ppi_analysis.internal_down_regulated) < Len(biogrid_ppi)

SwapSides(resp) ==
    [status |-> resp.status,
     summary |-> [up_regulated_submitted_count |-> resp.summary.down_regulated_submitted_count,
                  down_regulated_submitted_count |-> resp.summary.up_regulated_submitted_count,
                  up_regulated_mapped_count |-> resp.summary.down_regulated_mapped_count,
                  down_regulated_mapped_count |-> resp.summary.up_regulated_mapped_count],
     go_comparison |-> [unique_to_up_regulated |-> resp.go_comparison.unique_to_down_regulated,
                        unique_to_down_regulated |-> resp.go_comparison.unique_to_up_regulated,
                        shared |-> resp.go_comparison.shared],
     ppi_analysis |-> [internal_up_regulated |-> resp.ppi_analysis.internal_down_regulated,
                       internal_down_regulated |-> resp.ppi_analysis.internal_up_regulated,
                       cross_talk |-> resp.ppi_analysis.cross_talk]]

\* C5: the response to (B, A) is the response to (A, B) with the two sides
\* exchanged and the shared terms and the cross-talk unchanged.
C5_Symmetry ==
    \A r1 \in Requests, r2 \in Requests :
        (/\ Served(r1) /\ Served(r2)
         /\ CleanIds(req[r2].up) = CleanIds(req[r1].down)
         /\ CleanIds(req[r2].down) = CleanIds(req[r1].up))
        => req[r2].resp = SwapSides(req[r1].resp)

\* (A, B) and (B, A) both served, the sides differing in every group of the response
C5_Witness ==
    /\ Served(1) /\ Served(2)
    /\ req[2].up = req[1].down /\ req[2].down = req[1].up
    /\ req[1].resp.summary.up_regulated_mapped_count # req[1].resp.summary.down_regulated_mapped_count
    /\ req[1].resp.go_comparison.unique_to_up_regulated # req[1].resp.go_comparison.unique_to_down_regulated
    /\ req[1].resp.ppi_analysis.internal_up_regulated # req[1].resp.ppi_analysis.internal_down_regulated
    /\ req[1].resp.ppi_analysis.cross_talk # <<>>

\* C8: a submitted id matches a stored gene id whatever the stored id's letter case,
\* in the mapped count, in the term lookup and in the symbol lookup alike.
C8_CaseInsensitive ==
    \A r \in Requests : PastSymbols(r) =>
        /\ req[r].mapped_a_count =
             Cardinality({x \in req[r].ensembl_ids_a : \E i \in 1..Len(genes) : Upper(genes[i].ensembl_gene_id) = x})
        /\ req[r].go_set_a =
             {ensembl_to_go[i].go_id : i \in {j \in 1..Len(ensembl_to_go) : Upper(ensembl_to_go[j].ensembl_gene_id) \in req[r].ensembl_ids_a}}
        /\ req[r].symbols_a =
             {Upper(genes[i].gene_symbol) : i \in {j \in 1..Len(genes) : Upper(genes[j].ensembl_gene_id) \in req[r].ensembl_ids_a}}

-----------------------------------------------------------------------------
(* Properties of the server *)

\* C3: a request whose two lists both clean to the empty set is turned away
\* before anything is compared: it reads no table and gets no comparison response.
C3_EmptyRejected ==
    \A r \in Requests :
        (req[r].pc # "idle" /\ CleanIds(req[r].up) = {} /\ CleanIds(req[r].down) = {})
        => (req[r].reads = {} /\ req[r].resp.status # 200)

\* C4: a comparison response is only ever given after a successful startup, and a
\* request taken up while engine is None ends at once with 503, having read no table.
C4_Unavailable ==
    /\ [](\A r \in Requests : (req[r].resp.status = 200 \/ req[r].reads # {}) => (connected /\ phase # "import"))
    /\ [][\A r \in Requests :
            (req[r].pc = "start" /\ engine = "None" /\ req'[r] # req[r])
            => (req'[r].pc = "done" /\ req'[r].resp.status = 503 /\ req'[r].reads = {})]_vars

\* a request answered 503 after a failed startup, although the database is back
C4_Witness ==
    \E r \in Requests :
        /\ req[r].pc = "done" /\ req[r].resp.status = 503
        /\ phase = "serving" /\ ~connected /\ envOK /\ dbUp

AnyOrder(S) == CHOOSE s \in Orderings(S) : TRUE

\* the response of a request (up, down) that runs alone against the tables
AloneResponse(up, down) ==
    LET a == CleanIds(up)
        b == CleanIds(down)
        ga == GoSet(ensembl_to_go, a)
        gb == GoSet(ensembl_to_go, b)
        q == [IdleRequest EXCEPT
                !.ensembl_ids_a = a, !.ensembl_ids_b = b,
                !.mapped_a_count = MappedCount(a, genes), !.mapped_b_count = MappedCount(b, genes),
                !.unique_go_a_ids = AnyOrder(ga \ gb), !.unique_go_b_ids = AnyOrder(gb \ ga),
                !.shared_go_ids = AnyOrder(ga \cap gb),
                !.go_terms_map_df = go_terms,
                !.symbols_a = SymbolsOf(genes, a), !.symbols_b = SymbolsOf(genes, b)]
    IN  FinalResponse(q, UpperPPI(biogrid_ppi))

\* C9: however requests interleave, a served request's response is the one it gets
\* alone, and a step of a request changes neither the engine, nor a table, nor
\* another request.
C9_Isolation ==
    /\ [](\A r \in Requests : Served(r) => req[r].resp = AloneResponse(req[r].up, req[r].down))
    /\ [][\A r \in Requests :
            req'[r] # req[r] =>
                /\ engine' = engine
                /\ tables' = tables
                /\ \A q \in Requests \ {r} : req'[q] = req[q]]_vars

\* one request served while another, with other lists, is between two table reads
C9_Witness ==
    \E r \in Requests, q \in Requests :
        /\ Served(r)
        /\ req[q].pc \in {"go", "terms", "ppi"}
        /\ req[q].up # req[r].up
        /\ req[r].resp.ppi_analysis.cross_talk # <<>>
        /\ biogrid_ppi # UpperPPI(biogrid_ppi)

-----------------------------------------------------------------------------
(* Properties of the response as a function of the cleaned sets *)

Labelled == [i \in 1..Len(go_terms) |-> [id |-> go_terms[i].GO_ID, term |-> go_terms[i].GO_Term]]

\* C10: two served requests whose lists clean to the same two sets get the same
\* response, and each labelled term list is in the order of the go_terms table.
C10_FunctionOfSets ==
    /\ \A r1 \in Requests, r2 \in Requests :
        (/\ Served(r1) /\ Served(r2)
         /\ CleanIds(req[r1].up) = CleanIds(req[r2].up)
         /\ CleanIds(req[r1].down) = CleanIds(req[r2].down))
        => req[r1].resp = req[r2].resp
    /\ \A r \in Requests : Served(r) =>
        LET InUa(row) == row.id \in TermsOf(req[r].up) \ TermsOf(req[r].down)
            InUb(row) == row.id \in TermsOf(req[r].down) \ TermsOf(req[r].up)
            InSh(row) == row.id \in TermsOf(req[r].up) \cap TermsOf(req[r].down)
        IN  /\ IsOrderedFilter(req[r].resp.go_comparison.unique_to_up_regulated, Labelled, InUa)
            /\ IsOrderedFilter(req[r].resp.go_comparison.unique_to_down_regulated, Labelled, InUb)
            /\ IsOrderedFilter(req[r].resp.go_comparison.shared, Labelled, InSh)

\* two served requests with different raw lists and the same cleaned sets, and a
\* labelled list of two terms
C10_Witness ==
    /\ Served(1) /\ Served(2)
    /\ req[1].up # req[2].up /\ req[1].down # req[2].down
    /\ CleanIds(req[1].up) = CleanIds(req[2].up)
    /\ CleanIds(req[1].down) = CleanIds(req[2].down)
    /\ Len(req[1].resp.go_comparison.unique_to_up_regulated) >= 2

-----------------------------------------------------------------------------
(* Properties of the comparison over the tables the pipeline builds *)

LabelsWithin(labels, ids) ==
    /\ Len(labels) <= Cardinality(ids)
    /\ \A i \in 1..Len(labels) : labels[i].id \in ids
    /\ \A i \in 1..Len(labels), j \in 1..Len(labels) : labels[i].id = labels[j].id => i = j

\* C6: each labelled list has at most one entry per term id of its partition and none
\* for another id, so it is no longer than the partition, whatever file parse_obo read.
C6_LabelBound ==
    \A r \in Requests : Served(r) =>
        /\ LabelsWithin(req[r].resp.go_comparison.unique_to_up_regulated, TermsOf(req[r].up) \ TermsOf(req[r].down))
        /\ LabelsWithin(req[r].resp.go_comparison.unique_to_down_regulated, TermsOf(req[r].down) \ TermsOf(req[r].up))
        /\ LabelsWithin(req[r].resp.go_comparison.shared, TermsOf(req[r].up) \cap TermsOf(req[r].down))

\* C7: the terms of a submitted set are the terms of its mapped subset, over the
\* genes and ensembl_to_go tables the pipeline builds.
C7_MappedOnly ==
    \A r \in Requests : PastGo(r) =>
        /\ req[r].go_set_a = GoSet(ensembl_to_go, req[r].ensembl_ids_a \cap DbEnsemblIds(genes))
        /\ req[r].go_set_b = GoSet(ensembl_to_go, req[r].ensembl_ids_b \cap DbEnsemblIds(genes))

====
